---------------------------- MODULE Spec2Model ----------------------------
(***************************************************************************)
(* Model of the polymarket-bot control loop (src/polymarket-bot):          *)
(*   - StateManager (src/core/state.py): the durable store                 *)
(*   - RiskManager  (src/agents/risk.py): the risk gate                    *)
(*   - main.py: the phased cycle                                           *)
(* Money, sizes, prices and probabilities are exact rationals <<n, d>>     *)
(* with d > 0 in lowest terms; the source computes them as floats.         *)
(***************************************************************************)
EXTENDS Integers, Sequences, FiniteSets, TLC

VARIABLES
    faults,               \* store calls and ledger queries that may still fail
    runs,                 \* invocations started so far
    bot_config,           \* bot_state["config"]: "unset", "alive" or "dead"
    bot_initial_balance,  \* bot_state["initial_balance"] (0 = never set)
    bot_balance,          \* bot_state["balance"].usdc
    bot_last_run,         \* number of bot_state["last_run"] writes
    bot_last_error,       \* number of bot_state["last_error"] writes
    tbl_positions,        \* positions table: key -> row
    tbl_orders,           \* orders table: order id -> row
    tbl_cache,            \* market_opportunities table: market -> row
    tbl_trade_logs,       \* number of trade_logs rows
    now,                  \* wall clock, in ticks
    pc,                   \* position of the running invocation in main()
    loc,                  \* locals of the running invocation
    probe                 \* last direct call of a component and its result

storeVars == <<bot_config, bot_initial_balance, bot_balance, bot_last_run, bot_last_error, tbl_positions, tbl_orders, tbl_cache, tbl_trade_logs>>
vars == <<faults, runs, bot_config, bot_initial_balance, bot_balance, bot_last_run, bot_last_error, tbl_positions, tbl_orders, tbl_cache, tbl_trade_logs, now, pc, loc, probe>>

-----------------------------------------------------------------------------
(* Exact rational arithmetic standing for the source's float arithmetic.   *)

Abs(n) == IF n < 0 THEN -n ELSE n

RECURSIVE GCD(_, _)
GCD(a, b) == IF b = 0 THEN a ELSE GCD(b, a % b)

Q(n, d) == LET g == GCD(Abs(n), d) IN <<n \div g, d \div g>>
QInt(n) == <<n, 1>>
QZero == <<0, 1>>
QOne == <<1, 1>>
QAdd(a, b) == Q(a[1] * b[2] + b[1] * a[2], a[2] * b[2])
QSub(a, b) == Q(a[1] * b[2] - b[1] * a[2], a[2] * b[2])
QMul(a, b) == LET x == Q(a[1], b[2])
                  y == Q(b[1], a[2])
              IN  Q(x[1] * y[1], x[2] * y[2])
\* a / b for b > 0
QDiv(a, b) == QMul(a, <<b[2], b[1]>>)
QLt(a, b) == a[1] * b[2] < b[1] * a[2]
QLe(a, b) == a[1] * b[2] <= b[1] * a[2]
QMin(a, b) == IF QLe(a, b) THEN a ELSE b
QMax(a, b) == IF QLe(a, b) THEN b ELSE a
QAbs(a) == <<Abs(a[1]), a[2]>>

\* Python's round(x, digits) for x >= 0, scale = 10^digits: the nearest
\* multiple of 1/scale, a tie going to the even one.
Round(x, scale) ==
    LET s == x[1] * scale
        f == s \div x[2]
        r == s % x[2]
        up == \/ 2 * r > x[2]
              \/ (2 * r = x[2] /\ f % 2 = 1)
    IN  Q(IF up THEN f + 1 ELSE f, scale)

-----------------------------------------------------------------------------
(* RiskManager, src/polymarket-bot/src/agents/risk.py                      *)

\* StateManager.get_risk_params: the defaults, before the stored overrides
DefaultParams ==
    [kelly_fraction           |-> <<1, 4>>,
     max_position_pct         |-> <<1, 5>>,
     max_single_order         |-> <<50, 1>>,
     stop_out_pct             |-> <<1, 5>>,
     min_edge                 |-> <<1, 10>>,
     emergency_threshold      |-> <<1, 5>>,
     emergency_min_confidence |-> <<9, 10>>]

\* A stored risk_params override that raises the emergency threshold above
\* the stop-out fraction, which makes the emergency mode reachable.
EmergencyParams == [DefaultParams EXCEPT !.emergency_threshold = <<1, 2>>]

\* RiskManager.__init__: the parameter sets the model runs the gate with
ParamSets == {DefaultParams, EmergencyParams}

RiskAssessment(should_trade, order_size_usdc, kelly_fraction, kelly_raw, reason, risk_level) ==
    [should_trade    |-> should_trade,
     order_size_usdc |-> order_size_usdc,
     kelly_fraction  |-> kelly_fraction,
     kelly_raw       |-> kelly_raw,
     reason          |-> reason,
     risk_level      |-> risk_level]

\* the raw Kelly fraction f* = (b p - q) / b, for 0.01 < market_price < 0.99
KellyRaw(ai_probability, market_price) ==
    LET b == QSub(QDiv(QOne, market_price), QOne)
        p == ai_probability
        q == QSub(QOne, p)
    IN  QDiv(QSub(QMul(b, p), q), b)

\* "kelly_raw = (b * p - q) / b" as the float arithmetic of the build gives
\* it: the exact value, or a value one rounding error above or below it.
\* rounding is -1, 0 or 1, and Ulp stands for the size of the rounding error.
Ulp == <<1, 1000000>>
KellyRawFloat(ai_probability, market_price, rounding) ==
    QAdd(KellyRaw(ai_probability, market_price), QMul(QInt(rounding), Ulp))

\* calculate_kelly, given the value it computes for kelly_raw
calculate_kelly_of(params, market_price, kelly_raw) ==
    IF QLe(market_price, <<1, 100>>) \/ QLe(<<99, 100>>, market_price)
    THEN QZero
    ELSE IF QLe(QSub(QDiv(QOne, market_price), QOne), QZero)
    THEN QZero
    ELSE IF QLe(kelly_raw, QZero)
    THEN QZero
    ELSE QMin(QMul(kelly_raw, params.kelly_fraction), <<1, 4>>)

\* calculate_kelly on inputs for which the rounding errors do not change
\* what assess_trade returns
calculate_kelly(params, ai_probability, market_price) ==
    calculate_kelly_of(params, market_price, KellyRaw(ai_probability, market_price))

\* kelly_raw_val / self.kelly_fraction if self.kelly_fraction > 0 else 0
KellyBack(params, kelly_raw_val) ==
    IF QLt(QZero, params.kelly_fraction)
    THEN QDiv(kelly_raw_val, params.kelly_fraction)
    ELSE QZero

\* a sizing that takes the single-order cap whatever the balance is; C30
\* fails of it
OrderSizeFlat(params, kelly_raw_val, current_balance, existing_position_size, is_emergency) ==
    params.max_single_order

\* a sizing without the position cap and the single-order cap; C15 fails
\* of it
OrderSizeUncapped(params, kelly_raw_val, current_balance, existing_position_size, is_emergency) ==
    QMul(current_balance, kelly_raw_val)

\* section 6 of assess_trade: the size before the minimum-size test
OrderSize(params, kelly_raw_val, current_balance, existing_position_size, is_emergency) ==
    LET sized == QMul(current_balance, kelly_raw_val)
        emerg == IF is_emergency
                 THEN QMin(sized, QMul(current_balance, <<1, 20>>))
                 ELSE sized
        max_position == QMul(current_balance, params.max_position_pct)
        total_exposure == QAdd(existing_position_size, emerg)
        capped == IF QLt(max_position, total_exposure)
                  THEN QMax(QZero, QSub(max_position, existing_position_size))
                  ELSE emerg
    IN  QMin(capped, params.max_single_order)

\* a stop-out test with the ratio upside down; C5 fails of it
StopOutInverted(params, current_balance, initial_balance) ==
    /\ QLt(QZero, current_balance)
    /\ QLt(initial_balance, QMul(params.stop_out_pct, current_balance))

\* section 2 of assess_trade: initial_balance > 0 and
\* current_balance / initial_balance < stop_out_pct
StopOut(params, current_balance, initial_balance) ==
    /\ QLt(QZero, initial_balance)
    /\ QLt(QDiv(current_balance, initial_balance), params.stop_out_pct)

\* the order size assess_trade returns when it approves
ReturnedSize(order_size) == Round(order_size, 100)

assess_trade(params, ai_probability, market_price, current_balance, initial_balance, existing_position_size, side) ==
    LET has_initial == QLt(QZero, initial_balance)
        ratio == IF has_initial
                 THEN QDiv(current_balance, initial_balance)
                 ELSE QZero
        is_emergency == has_initial /\ QLt(ratio, params.emergency_threshold)
        edge == IF side = "BUY"
                THEN QSub(ai_probability, market_price)
                ELSE QSub(market_price, ai_probability)
        kelly_raw_val ==
            IF side = "BUY"
            THEN calculate_kelly(params, ai_probability, market_price)
            ELSE calculate_kelly(params, QSub(QOne, ai_probability),
                                 QSub(QOne, market_price))
        order_size == OrderSize(params, kelly_raw_val, current_balance,
                                existing_position_size, is_emergency)
    IN  IF QLe(current_balance, QZero)
        THEN RiskAssessment(FALSE, QZero, QZero, QZero, "balance", "blocked")
        ELSE IF StopOut(params, current_balance, initial_balance)
        THEN RiskAssessment(FALSE, QZero, QZero, QZero, "stop_out", "blocked")
        ELSE IF is_emergency
                /\ QLt(ai_probability, params.emergency_min_confidence)
        THEN RiskAssessment(FALSE, QZero, QZero, QZero, "emergency",
                            "emergency")
        ELSE IF QLt(edge, params.min_edge)
        THEN RiskAssessment(FALSE, QZero, QZero, QZero, "edge", "normal")
        ELSE IF QLe(kelly_raw_val, QZero)
        THEN RiskAssessment(FALSE, QZero, kelly_raw_val,
                            KellyBack(params, kelly_raw_val), "kelly",
                            "normal")
        ELSE IF QLt(order_size, QOne)
        THEN RiskAssessment(FALSE, QZero, kelly_raw_val,
                            KellyBack(params, kelly_raw_val), "too_small",
                            IF is_emergency THEN "cautious" ELSE "normal")
        ELSE RiskAssessment(TRUE, ReturnedSize(order_size),
                            Round(kelly_raw_val, 10000),
                            Round(KellyBack(params, kelly_raw_val), 10000),
                            "approved",
                            IF is_emergency THEN "emergency" ELSE "normal")

-----------------------------------------------------------------------------
(* StateManager positions, src/polymarket-bot/src/core/state.py            *)

\* (condition_id, token_id) keys the ledger and the store hold positions for
Keys == {<<"m1", "m1-yes">>, <<"m2", "m2-no">>}
\* the order the loops of reconcile_positions visit keys in
KeySeq == <<(<<"m1", "m1-yes">>), (<<"m2", "m2-no">>)>>

\* position sizes: 5.2, 5.2004 (within 0.001 of 5.2) and 8
Sizes == {<<26, 5>>, <<13001, 2500>>, <<8, 1>>}

Sources == {"agent", "onchain_discovery"}

\* a key with no row in the positions table
NoPos == [ex |-> FALSE, size |-> QZero, is_open |-> FALSE, source |-> "none"]

PosRows == [ex : {TRUE}, size : Sizes, is_open : BOOLEAN, source : Sources]

\* an empty list of rows, as a map from keys
NoRows == [k \in {} |-> NoPos]

\* StateManager.get_positions: the open rows; a failed read gives []
get_positions(tbl, read_ok) ==
    IF read_ok
    THEN [k \in {x \in Keys : tbl[x].ex /\ tbl[x].is_open} |-> tbl[k]]
    ELSE NoRows

\* ExecutionEngine.get_wallet_balance: the balance the Data API reports; a
\* failed query leaves {"usdc": 0.0}
engine_get_wallet_balance(usdc, query_ok) == IF query_ok THEN usdc ELSE QZero

\* a ledger without positions
NoLedger == [k \in {} |-> QZero]

\* a query that keeps the entries of size zero; C25 fails of it
engine_get_all_positions(raw, query_ok) ==
    IF query_ok THEN raw ELSE [k \in {} |-> QZero]

\* ExecutionEngine.get_positions: the ledger's entries of positive size;
\* a failed query gives []
engine_get_positions(raw, query_ok) ==
    IF query_ok
    THEN [k \in {x \in DOMAIN raw : QLt(QZero, raw[x])} |-> raw[k]]
    ELSE [k \in {} |-> QZero]

\* abs(db_size - chain_size) > 0.001
SizeDiffers(db_size, chain_size) ==
    QLt(<<1, 1000>>, QAbs(QSub(db_size, chain_size)))

\* an insert that marks the position as opened by the agent; C16 fails of it
InsertAsAgent(tbl, key, size) ==
    [tbl EXCEPT ![key] = [ex |-> TRUE, size |-> size, is_open |-> TRUE,
                          source |-> "agent"]]

\* StateManager.upsert_position, the insert of a discovered position
InsertDiscovered(tbl, key, size) ==
    [tbl EXCEPT ![key] = [ex |-> TRUE, size |-> size, is_open |-> TRUE,
                          source |-> "onchain_discovery"]]

\* StateManager.close_position
close_position(tbl, key) ==
    [tbl EXCEPT ![key] = [@ EXCEPT !.is_open = FALSE]]
\* an update that writes is_open and leaves the size; C2 fails of it
UpdateSizeKeepsSize(tbl, key, chain_size) ==
    [tbl EXCEPT ![key] = [@ EXCEPT !.is_open = QLt(QZero, chain_size)]]

\* StateManager.upsert_position, the size update of a row that exists
UpdateSize(tbl, key, chain_size) ==
    [tbl EXCEPT ![key] = [@ EXCEPT !.size = chain_size,
                                   !.is_open = QLt(QZero, chain_size)]]

KeysIn(S) == SelectSeq(KeySeq, LAMBDA k : k \in S)

AddedKeys(db_map, onchain_map) == DOMAIN onchain_map \ DOMAIN db_map
\* a reconciler that closes nothing; C1 fails of it
RemovedKeysNone(db_map, onchain_map) == {}

RemovedKeys(db_map, onchain_map) == DOMAIN db_map \ DOMAIN onchain_map

UpdatedKeys(db_map, onchain_map) ==
    {k \in DOMAIN db_map \cap DOMAIN onchain_map :
        SizeDiffers(db_map[k].size, onchain_map[k])}

\* the store writes of reconcile_positions, in the order it issues them
ReconcileWrites(db_map, onchain_map) ==
    LET W(op, S) == [i \in 1..Len(KeysIn(S)) |->
                        [op |-> op, key |-> KeysIn(S)[i]]]
    IN  W("add", AddedKeys(db_map, onchain_map))
        \o W("close", RemovedKeys(db_map, onchain_map))
        \o W("update", UpdatedKeys(db_map, onchain_map))

ApplyWrite(tbl, w, onchain_map) ==
    CASE w.op = "add" -> InsertDiscovered(tbl, w.key, onchain_map[w.key])
      [] w.op = "close" -> close_position(tbl, w.key)
      [] w.op = "update" -> UpdateSize(tbl, w.key, onchain_map[w.key])

RECURSIVE ApplyWrites(_, _, _, _)
ApplyWrites(tbl, ws, n, onchain_map) ==
    IF n = 0
    THEN tbl
    ELSE ApplyWrite(ApplyWrites(tbl, ws, n - 1, onchain_map), ws[n],
                    onchain_map)

\* the keys of the first n writes that are of kind op
Tagged(ws, n, op) == {ws[i].key : i \in {j \in 1..n : ws[j].op = op}}

\* StateManager.reconcile_positions. read_ok: the read of the open rows
\* succeeds. failing: the index of the first write that fails, 0 for none;
\* a failed write raises, and the writes before it stay.
reconcile_positions(tbl, onchain_map, read_ok, failing) ==
    LET db_map == get_positions(tbl, read_ok)
        ws == ReconcileWrites(db_map, onchain_map)
        raised == failing \in 1..Len(ws)
        n == IF raised THEN failing - 1 ELSE Len(ws)
    IN  [tbl      |-> ApplyWrites(tbl, ws, n, onchain_map),
         raised   |-> raised,
         nwrites  |-> n,
         added    |-> Tagged(ws, n, "add"),
         removed  |-> Tagged(ws, n, "close"),
         updated  |-> Tagged(ws, n, "update")]

-----------------------------------------------------------------------------
(* StateManager bot_state, orders and cache, src/core/state.py             *)

\* StateManager.get_config("config", ...): what the read of the flag found
FlagRead(cfg, read_ok) ==
    IF ~read_ok THEN "failed"
    ELSE IF cfg = "unset" THEN "missing"
    ELSE IF cfg = "dead" THEN "false"
    ELSE "true"

\* StateManager.is_alive: get_config("config", {"is_alive": True}) and
\* config.get("is_alive", True); a failed read gives the default
is_alive(cfg, read_ok) == IF read_ok THEN cfg # "dead" ELSE TRUE

\* StateManager.get_initial_balance: get_config("initial_balance", 0.0)
get_initial_balance(stored, read_ok) == IF read_ok THEN stored ELSE QZero

\* StateManager.set_initial_balance: whether it writes the baseline
InitialBalanceUnset(existing) == QLe(existing, QZero)

STALE_ORDER_MINUTES == 60
\* the clock counts in ticks of one stale-order period
TickMinutes == STALE_ORDER_MINUTES
\* max_age_hours of get_cached_analysis, as phase_3_analysis passes it
MAX_AGE_HOURS == 4
MAX_TRADES_PER_CYCLE == 3

\* a created_at that is missing or that fromisoformat cannot parse
BadTime == -1
\* the order_id of a row stored without one
NoId == 0

OrderRow(order_id, status, created_at) ==
    [order_id |-> order_id, status |-> status, created_at |-> created_at, updated_at |-> BadTime]

RowIds(tbl) == 1..Len(tbl)
\* a read of the orders that does not filter on the status; C7 fails of it
get_all_orders(tbl, read_ok) ==
    IF read_ok THEN [i \in RowIds(tbl) |-> i] ELSE << >>

\* StateManager.get_open_orders: the rows with status OPEN, in table order;
\* a failed read gives []
get_open_orders(tbl, read_ok) ==
    IF read_ok
    THEN SelectSeq([i \in RowIds(tbl) |-> i], LAMBDA i : tbl[i].status = "OPEN")
    ELSE << >>

\* StateManager.update_order_status: every row with this order_id
update_order_status(tbl, order_id, status, at) ==
    [i \in RowIds(tbl) |->
        IF tbl[i].order_id = order_id
        THEN [tbl[i] EXCEPT !.status = status, !.updated_at = at]
        ELSE tbl[i]]

\* StateManager.save_order: a new row, created_at = now
save_order(tbl, order_id, at) == Append(tbl, OrderRow(order_id, "OPEN", at))

\* _cancel_stale_orders, the test of one row: created_at is there and
\* parses, age_minutes > STALE_ORDER_MINUTES, and the row has an order_id
IsStale(row, at) ==
    /\ row.created_at # BadTime
    /\ (at - row.created_at) * TickMinutes > STALE_ORDER_MINUTES
    /\ row.order_id # NoId

\* the rows _cancel_stale_orders asks the ledger to cancel, in order
StaleRows(tbl, at, read_ok) ==
    SelectSeq(get_open_orders(tbl, read_ok), LAMBDA i : IsStale(tbl[i], at))

\* the loop of _cancel_stale_orders over the first n stale rows.
\* accepted: the order ids whose cancel request the ledger accepts.
\* failing: the index of the first status write that fails, 0 for none; a
\* failed write raises out of the loop.
RECURSIVE CancelLoop(_, _, _, _, _, _)
CancelLoop(tbl, stale, n, at, accepted, failing) ==
    IF n = 0
    THEN [tbl |-> tbl, requests |-> {}, cancelled |-> 0, nwrites |-> 0, raised |-> FALSE]
    ELSE LET prev == CancelLoop(tbl, stale, n - 1, at, accepted, failing)
             id == tbl[stale[n]].order_id
         IN  IF prev.raised
             THEN prev
             ELSE IF id \notin accepted
             THEN [prev EXCEPT !.requests = @ \cup {id}]
             ELSE IF prev.nwrites + 1 = failing
             THEN [prev EXCEPT !.requests = @ \cup {id}, !.raised = TRUE]
             ELSE [prev EXCEPT !.requests = @ \cup {id},
                               !.tbl = update_order_status(prev.tbl, id, "CANCELLED", at),
                               !.cancelled = @ + 1,
                               !.nwrites = @ + 1]

cancel_stale_orders(tbl, at, read_ok, accepted, failing) ==
    LET stale == StaleRows(tbl, at, read_ok)
    IN  CancelLoop(tbl, stale, Len(stale), at, accepted, failing)
\* a freshness test that rejects a row of exactly max_age_hours; C10 fails
\* of it
CacheFreshStrict(row, at) == (at - row.last_analyzed) * TickMinutes < MAX_AGE_HOURS * 60

\* StateManager.get_cached_analysis: the row, unless it is missing, older
\* than max_age_hours, or the read fails
CacheFresh(row, at) == ~((at - row.last_analyzed) * TickMinutes > MAX_AGE_HOURS * 60)

get_cached_analysis(row, at, read_ok) == read_ok /\ row.ex /\ CacheFresh(row, at)

-----------------------------------------------------------------------------
(* Bounds of the model.                                                    *)

\* largest number of order rows the store holds
MaxOrders == 2
\* no invocation starts after MaxTicks ticks of the clock
MaxTicks == 5
\* largest number of invocations in a behaviour
MaxRuns == 2
\* largest number of failed store calls and ledger queries in a behaviour
MaxFaults == 1

Markets == {"m1", "m2", "m3", "m4"}

-----------------------------------------------------------------------------
(* Markets and opportunities, main.py and src/utils/helpers.py             *)

YesTokenId == [m \in Markets |-> m \o "-yes"]
NoTokenId == [m \in Markets |-> m \o "-no"]

\* a market as phase_2_discovery returns it: the price of its YES token, and
\* whether it lists any token at all
MarketView(condition_id, yes_price, has_tokens) ==
    [condition_id |-> condition_id, yes_price |-> yes_price, has_tokens |-> has_tokens]

\* what phase_2_discovery may return: markets by volume, largest first
Discoveries ==
    {<< >>,
     <<MarketView("m2", <<4, 5>>, TRUE), MarketView("m1", <<2, 5>>, TRUE)>>,
     <<MarketView("m2", <<4, 5>>, FALSE), MarketView("m1", <<2, 5>>, TRUE)>>}

\* the condition ids of a list of markets or opportunities
Ids(list) == {list[i].condition_id : i \in 1..Len(list)}

\* the oracle's answer for a market: no answer (the call raises), or a
\* probability
NoReply == <<-1, 1>>
OracleReplies == {NoReply, <<13, 20>>}

\* what ExecutionEngine.place_order returns: None, an order with the id the
\* venue issued, or an order whose order_id is None
PlaceOutcomes == {"none", "order", "order_without_id"}

Opportunity(condition_id, market_price, ai_probability, edge, has_tokens, cached) ==
    [condition_id |-> condition_id, market_price |-> market_price, ai_probability |-> ai_probability, edge |-> edge, has_tokens |-> has_tokens, cached |-> cached]

\* a row of market_opportunities used as an opportunity: cache_analysis
\* stores neither "edge" nor "tokens", so opp.get gives 0 and []
CachedOpportunity(m, row) ==
    Opportunity(m, row.market_price, row.ai_probability, QZero, FALSE, TRUE)

\* AnalystAgent.analyze_market and the opportunity phase_3_analysis builds
FreshOpportunity(view, ai_prob) ==
    Opportunity(view.condition_id, view.yes_price, Round(ai_prob, 10000),
                LET e == QSub(ai_prob, view.yes_price)
                IN  IF QLt(e, QZero)
                    THEN QSub(QZero, Round(QAbs(e), 10000))
                    ELSE Round(e, 10000),
                view.has_tokens, FALSE)

\* StateManager.cache_analysis: the row it upserts
CacheRow(view, ai_prob, at) ==
    [ex |-> TRUE, last_analyzed |-> at, ai_probability |-> Round(ai_prob, 10000), market_price |-> view.yes_price]

\* the loop of phase_3_analysis over the first n markets. replies: the
\* oracle's answer per market. read_ok, write_ok: whether the cache read and
\* the cache write of a market succeed (both failures are swallowed).
RECURSIVE AnalysisLoop(_, _, _, _, _, _, _)
AnalysisLoop(tbl, markets, n, at, replies, read_ok, write_ok) ==
    IF n = 0
    THEN [tbl |-> tbl, opportunities |-> << >>, reused |-> {}, asked |-> {}]
    ELSE LET prev == AnalysisLoop(tbl, markets, n - 1, at, replies, read_ok, write_ok)
             view == markets[n]
             m == view.condition_id
         IN  IF get_cached_analysis(prev.tbl[m], at, read_ok[m])
             THEN [prev EXCEPT !.opportunities = Append(@, CachedOpportunity(m, prev.tbl[m])),
                               !.reused = @ \cup {m}]
             ELSE IF ~view.has_tokens
             THEN prev
             ELSE IF replies[m] = NoReply
             THEN [prev EXCEPT !.asked = @ \cup {m}]
             ELSE [prev EXCEPT !.asked = @ \cup {m},
                               !.opportunities = Append(@, FreshOpportunity(view, replies[m])),
                               !.tbl = IF write_ok[m]
                                       THEN [@ EXCEPT ![m] = CacheRow(view, replies[m], at)]
                                       ELSE @]

\* opportunities.sort(key=lambda o: abs(o.get("edge", 0)), reverse=True):
\* a stable insertion sort, largest absolute edge first
RECURSIVE SortByEdge(_)
SortByEdge(opps) ==
    IF Len(opps) <= 1
    THEN opps
    ELSE LET rest == SortByEdge(Tail(opps))
             x == Head(opps)
             before == SelectSeq(rest, LAMBDA o : QLt(QAbs(x.edge), QAbs(o.edge)))
             after == SelectSeq(rest, LAMBDA o : ~QLt(QAbs(x.edge), QAbs(o.edge)))
         IN  before \o <<x>> \o after

\* phase_4_decision_and_execution, the side of one opportunity: the token,
\* the price to buy at and the probability given to the risk gate. In the
\* NO branch edge = abs(edge) is assigned before the call, so the call's
\* "ai_prob if edge > 0 else ai_prob_for_risk" gives 1 - ai_prob only for
\* an edge of 0.
TradeSide(opp) ==
    IF QLt(QZero, opp.edge)
    THEN [outcome |-> "YES", token_id |-> YesTokenId[opp.condition_id],
          buy_price |-> opp.market_price, probability |-> opp.ai_probability]
    ELSE [outcome |-> "NO", token_id |-> NoTokenId[opp.condition_id],
          buy_price |-> QSub(QOne, opp.market_price),
          probability |-> IF QLt(QZero, QAbs(opp.edge))
                          THEN opp.ai_probability
                          ELSE QSub(QOne, opp.ai_probability)]

\* the size of the ledger position on this market and token, 0 if none
ExistingSize(onchain_map, condition_id, token_id) ==
    IF <<condition_id, token_id>> \in DOMAIN onchain_map
    THEN onchain_map[<<condition_id, token_id>>]
    ELSE QZero

\* ExecutionEngine.place_order: a size under 1.0 is refused before any
\* request is sent
place_order(size, outcome) == IF QLt(size, QOne) THEN "none" ELSE outcome

\* a loop that sends the order in dry-run mode too; C13 fails of it
SimulatedNever(dry_run) == FALSE

\* phase_4_decision_and_execution: "if dry_run:", the trade is recorded as
\* simulated and the iteration ends
Simulated(dry_run) == dry_run

\* a loop that leaves its balance as it was fetched; C22 fails of it
DeductNothing(balance, order_size) == balance

\* phase_4_decision_and_execution: balance -= order_size
Deduct(balance, order_size) == QSub(balance, order_size)

\* a loop without the limit of trades per cycle; C23 fails of it
CapNever(trade_count) == FALSE

\* phase_4_decision_and_execution: "if trade_count >= MAX_TRADES_PER_CYCLE:
\* break"
CapReached(trade_count) == trade_count >= MAX_TRADES_PER_CYCLE

\* one iteration of the loop of phase_4_decision_and_execution once the
\* risk gate has answered. prev: the loop's state before it; a: the
\* assessment; outcome: what place_order gives for this market.
ExecuteOne(prev, opp, side, a, at, dry_run, outcome, failing) ==
    LET seen == [prev EXCEPT !.assessed = Append(@, [condition_id |-> opp.condition_id, balance |-> prev.balance, probability |-> side.probability, price |-> side.buy_price, should_trade |-> a.should_trade])]
        trade == [condition_id |-> opp.condition_id, outcome |-> side.outcome, size |-> a.order_size_usdc, price |-> side.buy_price]
        got == place_order(a.order_size_usdc, outcome)
        sent == [seen EXCEPT !.submitted = Append(@, trade), !.accepted = IF got = "none" THEN @ ELSE @ + 1]
    IN  IF prev.raised \/ CapReached(prev.trade_count)
        THEN prev
        ELSE IF ~opp.has_tokens
        THEN prev
        ELSE IF ~a.should_trade
        THEN seen
        ELSE IF Simulated(dry_run)
        THEN [seen EXCEPT !.trades = Append(@, trade), !.trade_count = @ + 1]
        ELSE IF got = "none"
        THEN sent
        ELSE IF prev.nwrites + 1 = failing
        THEN [sent EXCEPT !.raised = TRUE]
        ELSE [sent EXCEPT !.tbl = save_order(@, IF got = "order" THEN Len(@) + 1 ELSE NoId, at),
                          !.nwrites = @ + 1,
                          !.logs = @ + 1,
                          !.trades = Append(@, trade),
                          !.trade_count = @ + 1,
                          !.balance = Deduct(@, a.order_size_usdc)]

\* one iteration: the side, the existing size on the ledger, the risk gate
\* on the loop's local balance, and then the order
AssessOne(prev, opp, side, at, initial, onchain_map, dry_run, outcome, failing) ==
    ExecuteOne(prev, opp, side,
               assess_trade(DefaultParams, side.probability, side.buy_price, prev.balance, initial,
                            ExistingSize(onchain_map, opp.condition_id, side.token_id), "BUY"),
               at, dry_run, outcome, failing)

\* the loop of phase_4_decision_and_execution over the first n
\* opportunities. venue: what place_order gives per market. failing: the
\* index of the first save_order write that fails, 0 for none; it raises.
RECURSIVE ExecutionLoop(_, _, _, _, _, _, _, _, _, _)
ExecutionLoop(tbl, opps, n, at, bal, initial, onchain_map, dry_run, venue, failing) ==
    IF n = 0
    THEN [tbl |-> tbl, balance |-> bal, trade_count |-> 0, trades |-> << >>, logs |-> 0, assessed |-> << >>, submitted |-> << >>, accepted |-> 0, nwrites |-> 0, raised |-> FALSE]
    ELSE AssessOne(ExecutionLoop(tbl, opps, n - 1, at, bal, initial, onchain_map, dry_run, venue, failing),
                   opps[n], TradeSide(opps[n]), at, initial, onchain_map, dry_run,
                   venue[opps[n].condition_id], failing)

-----------------------------------------------------------------------------
(* Values of the variables outside a running invocation.                   *)

NoCache == [ex |-> FALSE, last_analyzed |-> 0, ai_probability |-> QZero, market_price |-> QZero]

NoProbe == [op |-> "none"]

NoStale == [ran |-> FALSE, before |-> << >>, requests |-> {}, accepted |-> {}, cancelled |-> 0]

NoAnalysis == [ran |-> FALSE, before |-> [m \in Markets |-> NoCache], reused |-> {}, asked |-> {}]

\* the locals of main() before any phase has run
NewLoc(dry_run) ==
    [dry_run |-> dry_run,
     state_bound |-> TRUE,
     uncaught |-> FALSE,
     ledger_failed |-> FALSE,
     flag |-> "unread",
     alive |-> "unread",
     fetched |-> FALSE,
     balance |-> QZero,
     initial_balance |-> QZero,
     positions |-> [k \in {} |-> QZero],
     stale |-> NoStale,
     markets |-> << >>,
     analysis |-> NoAnalysis,
     opportunities |-> << >>,
     trades |-> << >>,
     assessed |-> << >>,
     submitted |-> << >>,
     accepted |-> 0,
     wrote_initial |-> FALSE,
     summary_balance |-> QZero,
     exit_code |-> -1,
     did |-> {}]

NoLoc == NewLoc(FALSE)

\* what a specification of one component leaves alone
Idle ==
    /\ bot_config = "alive"
    /\ bot_initial_balance = QZero
    /\ bot_balance = QZero
    /\ bot_last_run = 0
    /\ bot_last_error = 0
    /\ tbl_orders = << >>
    /\ tbl_cache = [m \in Markets |-> NoCache]
    /\ tbl_trade_logs = 0
    /\ now = 0
    /\ runs = 0
    /\ pc = "off"
    /\ loc = NoLoc

\* the outcomes of a store read or write, or of a ledger query
Outcomes == IF faults > 0 THEN BOOLEAN ELSE {TRUE}

\* the failures a choice of outcomes spends
Cost(ok) == IF ok THEN 0 ELSE 1
CostAll(oks) == Cardinality({x \in DOMAIN oks : ~oks[x]})
CostAt(failing) == IF failing = 0 THEN 0 ELSE 1

-----------------------------------------------------------------------------
(* The risk gate called directly, on inputs drawn from bounded sets.       *)

\* no probability and price of these sets are exactly min_edge apart, where
\* the float subtraction of the source may fall on either side of min_edge
Probabilities == {<<1, 50>>, <<2, 5>>, <<9, 20>>, <<13, 20>>, <<9, 10>>, <<19, 20>>, <<24, 25>>}
Prices == {<<1, 100>>, <<1, 5>>, <<2, 5>>, <<3, 5>>, <<49, 50>>}
Balances == {<<-5, 1>>, QZero, <<499, 50>>, <<100, 1>>, <<160, 1>>, <<400, 1>>, <<10003, 25>>, <<1000, 1>>}
InitialBalances == {QZero, <<100, 1>>, <<1000, 1>>}
ExistingSizes == {QZero, <<4501, 250>>, <<30, 1>>}
Sides == {"BUY", "SELL"}

\* what the probe holds before the call returns
NoRet == RiskAssessment(FALSE, QZero, QZero, QZero, "pending", "pending")

InitRisk ==
    /\ Idle
    /\ faults = 0
    /\ tbl_positions = [k \in Keys |-> NoPos]
    /\ probe \in [op : {"assess_trade"}, called : {FALSE}, params : ParamSets, ai_probability : Probabilities, market_price : Prices, current_balance : Balances, initial_balance : InitialBalances, existing_position_size : ExistingSizes, side : Sides, ret : {NoRet}]

AssessTradeCall ==
    /\ probe.op = "assess_trade"
    /\ ~probe.called
    /\ probe' = [probe EXCEPT !.called = TRUE,
                              !.ret = assess_trade(probe.params, probe.ai_probability, probe.market_price, probe.current_balance, probe.initial_balance, probe.existing_position_size, probe.side)]
    /\ UNCHANGED <<faults, runs, storeVars, now, pc, loc>>

NextRisk == AssessTradeCall

SpecRisk == InitRisk /\ [][NextRisk]_vars

-----------------------------------------------------------------------------
(* calculate_kelly called directly, with the rounding of its arithmetic.   *)

\* the direction of the rounding error of kelly_raw
Roundings == {-1, 0, 1}

\* probabilities in [0, 1] and prices, two of them outside (0.01, 0.99).
\* The probability equals the price at 0.3 and at 0.4, where the build
\* computes a kelly_raw above the exact value 0.
KellyProbabilities == {QZero, <<1, 10>>, <<3, 10>>, <<2, 5>>, <<1, 2>>, QOne}
KellyPrices == {<<1, 100>>, <<3, 10>>, <<2, 5>>, <<99, 100>>}

InitKelly ==
    /\ Idle
    /\ faults = 0
    /\ tbl_positions = [k \in Keys |-> NoPos]
    /\ probe \in [op : {"calculate_kelly"}, called : {FALSE}, params : ParamSets, ai_probability : KellyProbabilities, market_price : KellyPrices, rounding : Roundings, kelly_raw : {QZero}, ret : {QZero}]

KellyCall ==
    /\ probe.op = "calculate_kelly"
    /\ ~probe.called
    /\ \E raw \in {KellyRawFloat(probe.ai_probability, probe.market_price, probe.rounding)} :
          probe' = [probe EXCEPT !.called = TRUE,
                                 !.kelly_raw = raw,
                                 !.ret = calculate_kelly_of(probe.params, probe.market_price, raw)]
    /\ UNCHANGED <<faults, runs, storeVars, now, pc, loc>>

NextKelly == KellyCall

SpecKelly == InitKelly /\ [][NextKelly]_vars

-----------------------------------------------------------------------------
(* reconcile_positions called directly, on every store and ledger.         *)

\* what the ledger reports: a size, possibly zero, for some of the keys
LedgerRaws == UNION {[S -> Sizes \cup {QZero}] : S \in SUBSET Keys}

InitReconcile ==
    /\ Idle
    /\ faults = 0
    /\ tbl_positions \in [Keys -> PosRows \cup {NoPos}]
    /\ probe = NoProbe

\* what a call was given and what it returned; first is the number of
\* records the first call with these ledger positions wrote
ReconcileProbe(before, raw, onchain_map, r, again, first, read_ok, failing) ==
    [op |-> "reconcile_positions", before |-> before, raw |-> raw, onchain |-> onchain_map,
     read_ok |-> read_ok, failing |-> failing,
     raised |-> r.raised, nwrites |-> r.nwrites, added |-> r.added,
     removed |-> r.removed, updated |-> r.updated, again |-> again,
     first |-> first]

\* a call of reconcile_positions, on any store, with what the ledger reports
ReconcileCall ==
    /\ probe = NoProbe
    /\ \E raw \in LedgerRaws, read_ok \in Outcomes, failing \in (IF faults > 0 THEN 0..2 ELSE {0}) :
          LET onchain_map == engine_get_positions(raw, TRUE)
              r == reconcile_positions(tbl_positions, onchain_map, read_ok, failing)
          IN  /\ tbl_positions' = r.tbl
              /\ probe' = ReconcileProbe(tbl_positions, raw, onchain_map, r, FALSE, r.nwrites, read_ok, failing)
    /\ UNCHANGED <<faults, runs, bot_config, bot_initial_balance, bot_balance, bot_last_run, bot_last_error, tbl_orders, tbl_cache, tbl_trade_logs, now, pc, loc>>

\* a second call with the same ledger positions, on the store the call
\* before it left
ReconcileAgain ==
    /\ probe.op = "reconcile_positions"
    /\ ~probe.raised
    /\ \E read_ok \in Outcomes, failing \in (IF faults > 0 THEN 0..2 ELSE {0}) :
          LET r == reconcile_positions(tbl_positions, probe.onchain, read_ok, failing)
          IN  /\ tbl_positions' = r.tbl
              /\ probe' = ReconcileProbe(tbl_positions, probe.raw, probe.onchain, r, TRUE, probe.first, read_ok, failing)
    /\ UNCHANGED <<faults, runs, bot_config, bot_initial_balance, bot_balance, bot_last_run, bot_last_error, tbl_orders, tbl_cache, tbl_trade_logs, now, pc, loc>>

NextReconcile == ReconcileCall \/ ReconcileAgain

SpecReconcile == InitReconcile /\ [][NextReconcile]_vars

\* the same calls on a store whose reads and writes may fail
InitReconcileFaults ==
    /\ Idle
    /\ faults = MaxFaults
    /\ tbl_positions \in [Keys -> PosRows \cup {NoPos}]
    /\ probe = NoProbe

SpecReconcileFaults == InitReconcileFaults /\ [][NextReconcile]_vars

-----------------------------------------------------------------------------
(* One invocation of main() after another, main.py.                        *)

\* RiskManager.portfolio_health_check, its status
portfolio_health_check(params, current_balance, initial_balance) ==
    IF QLe(current_balance, QZero)
    THEN "dead"
    ELSE IF StopOut(params, current_balance, initial_balance)
    THEN "critical"
    ELSE IF QLt(QZero, initial_balance) /\ QLt(current_balance, QMul(params.emergency_threshold, initial_balance))
    THEN "warning"
    ELSE IF QLt(QZero, initial_balance) /\ QLt(current_balance, QMul(<<1, 2>>, initial_balance))
    THEN "warning"
    ELSE "healthy"
\* a main() that goes on whatever phase 0 returns; C4 fails of it
AfterKillSwitchIgnored(alive) == "phase_1"

\* main(): "if not phase_0_kill_switch(state): return"
AfterKillSwitch(alive) == IF alive THEN "phase_1" ELSE "off"
\* a balance test that lets a balance of exactly 0 through; C9 fails of it
NegativeBalance(balance) == QLt(balance, QZero)

\* main(): "if balance <= 0"
ZeroBalance(balance) == QLe(balance, QZero)

\* what get_wallet_balance may report; 0 is also what a failed query gives
WalletBalances == {QZero, <<100, 1>>}

\* what the ledger may hold positions for
CycleLedgers ==
    {[k \in {} |-> QZero],
     [k \in Keys |-> IF k[1] = "m1" THEN <<26, 5>> ELSE QZero]}

\* hours from the start of one invocation to the start of the next
Advances == {1, 4, 5}

\* the order rows an earlier invocation may have left
SeedOrders == {<< >>, <<OrderRow(1, "FILLED", 0)>>, <<OrderRow(1, "CANCELLED", 0)>>}

\* which write of a loop fails first, 0 for none
Failings == IF faults > 0 THEN 0..2 ELSE {0}

InitStores ==
    /\ bot_config \in {"unset", "dead"}
    /\ bot_initial_balance \in {QZero, <<1000, 1>>}
    /\ bot_balance = QZero
    /\ bot_last_run = 0
    /\ bot_last_error = 0
    /\ tbl_positions \in {[k \in Keys |-> NoPos],
                          [k \in Keys |-> IF k[1] = "m1" THEN [ex |-> TRUE, size |-> <<26, 5>>, is_open |-> TRUE, source |-> "agent"] ELSE NoPos]}
    /\ tbl_orders \in SeedOrders
    /\ tbl_cache = [m \in Markets |-> NoCache]
    /\ tbl_trade_logs = 0
    /\ now = 0
    /\ runs = 0
    /\ pc = "off"
    /\ loc = NoLoc
    /\ probe = NoProbe

Init == InitStores /\ faults = 0

InitFaults == InitStores /\ faults = MaxFaults

\* main(): state = StateManager(), engine = ExecutionEngine(),
\* analyst = AnalystAgent(). "no_state": StateManager() raised, the name
\* state is never bound; "no_engine": a later constructor raised.
Constructions == IF faults > 0 THEN {"ok", "no_state", "no_engine"} ELSE {"ok"}

\* the process starts: parse_args and the construction of the components,
\* which raises when StateManager() finds no SUPABASE_URL or SUPABASE_KEY.
\* The first invocation starts at hour 0. Between invocations pc = "off" and
\* loc is what the last one left.
Start ==
    /\ pc = "off"
    /\ \E d \in (IF runs = 0 THEN {0} ELSE Advances), dry_run \in BOOLEAN, built \in Constructions :
          /\ now + d <= MaxTicks
          /\ runs < MaxRuns
          /\ faults' = faults - Cost(built = "ok")
          /\ now' = now + d
          /\ runs' = runs + 1
          /\ loc' = [NewLoc(dry_run) EXCEPT !.state_bound = (built # "no_state")]
          /\ pc' = IF built = "ok" THEN "phase_0" ELSE "except"
    /\ UNCHANGED <<storeVars, probe>>

phase_0_kill_switch ==
    /\ pc = "phase_0"
    /\ \E read_ok \in Outcomes :
       /\ Cost(read_ok) <= faults
       /\ faults' = faults - Cost(read_ok)
       /\ LET alive == is_alive(bot_config, read_ok)
          IN  /\ loc' = [loc EXCEPT !.flag = FlagRead(bot_config, read_ok),
                                    !.alive = IF alive THEN "alive" ELSE "dead",
                                    !.exit_code = IF alive THEN @ ELSE 0]
              /\ pc' = AfterKillSwitch(alive)
    /\ UNCHANGED <<runs, storeVars, now, probe>>

\* phase_1_reconciliation, step 1: the wallet balance, set_initial_balance,
\* get_initial_balance and update_balance
phase_1_balance ==
    /\ pc = "phase_1"
    /\ \E usdc \in WalletBalances, query_ok \in Outcomes, r1 \in Outcomes, w1 \in Outcomes, r2 \in Outcomes, w2 \in Outcomes :
       /\ Cost(query_ok) + Cost(r1) + Cost(w1) + Cost(r2) + Cost(w2) <= faults
       /\ faults' = faults - (Cost(query_ok) + Cost(r1) + Cost(w1) + Cost(r2) + Cost(w2))
       /\ LET real_balance == engine_get_wallet_balance(usdc, query_ok)
              existing == get_initial_balance(bot_initial_balance, r1)
              writes == InitialBalanceUnset(existing)
              raised1 == writes /\ ~w1
              stored == IF writes /\ w1 THEN real_balance ELSE bot_initial_balance
              initial == get_initial_balance(stored, r2)
              raised2 == ~raised1 /\ ~w2
          IN  /\ bot_initial_balance' = stored
              /\ bot_balance' = IF raised1 \/ raised2 THEN bot_balance ELSE real_balance
              /\ loc' = [loc EXCEPT !.fetched = TRUE,
                                    !.ledger_failed = ~query_ok,
                                    !.balance = real_balance,
                                    !.initial_balance = IF raised1 THEN @ ELSE initial,
                                    !.wrote_initial = writes /\ w1,
                                    !.did = @ \cup {"ledger_balance", "store_write"}]
              /\ pc' = IF raised1 \/ raised2 THEN "except" ELSE "phase_1_positions"
    /\ UNCHANGED <<runs, bot_config, bot_last_run, bot_last_error, tbl_positions, tbl_orders, tbl_cache, tbl_trade_logs, now, probe>>

\* phase_1_reconciliation, step 2: the ledger's positions and
\* reconcile_positions
phase_1_positions ==
    /\ pc = "phase_1_positions"
    /\ \E raw \in CycleLedgers, query_ok \in Outcomes, read_ok \in Outcomes, failing \in Failings :
       /\ Cost(query_ok) + Cost(read_ok) + CostAt(failing) <= faults
       /\ faults' = faults - (Cost(query_ok) + Cost(read_ok) + CostAt(failing))
       /\ \E onchain_map \in {engine_get_positions(raw, query_ok)} :
          \E r \in {reconcile_positions(tbl_positions, onchain_map, read_ok, failing)} :
                 /\ tbl_positions' = r.tbl
                 /\ loc' = [loc EXCEPT !.positions = onchain_map,
                                       !.ledger_failed = ~query_ok,
                                       !.did = @ \cup {"ledger_positions"}
                                                 \cup (IF r.nwrites > 0 \/ r.raised THEN {"store_write"} ELSE {})]
                 /\ pc' = IF r.raised THEN "except" ELSE "phase_1_orders"
    /\ UNCHANGED <<runs, bot_config, bot_initial_balance, bot_balance, bot_last_run, bot_last_error, tbl_orders, tbl_cache, tbl_trade_logs, now, probe>>

\* phase_1_reconciliation, step 3: _cancel_stale_orders
phase_1_orders ==
    /\ pc = "phase_1_orders"
    /\ \E read_ok \in Outcomes, failing \in Failings :
       /\ Cost(read_ok) + CostAt(failing) <= faults
       /\ faults' = faults - (Cost(read_ok) + CostAt(failing))
       /\ \E accepted \in SUBSET {tbl_orders[i].order_id : i \in RowIds(tbl_orders)} :
          \E r \in {cancel_stale_orders(tbl_orders, now, read_ok, accepted, failing)} :
                 /\ accepted \subseteq r.requests
                 /\ tbl_orders' = r.tbl
                 /\ loc' = [loc EXCEPT !.stale = [ran |-> TRUE, before |-> tbl_orders, requests |-> r.requests, accepted |-> accepted, cancelled |-> r.cancelled],
                                       !.did = @ \cup (IF r.requests # {} THEN {"cancel_order"} ELSE {})
                                                 \cup (IF r.nwrites > 0 \/ r.raised THEN {"store_write"} ELSE {})]
                 /\ pc' = IF r.raised THEN "except" ELSE "balance_check"
    /\ UNCHANGED <<runs, bot_config, bot_initial_balance, bot_balance, bot_last_run, bot_last_error, tbl_positions, tbl_cache, tbl_trade_logs, now, probe>>

\* main(): the balance test after phase 1
balance_check ==
    /\ pc = "balance_check"
    /\ \E write_ok \in Outcomes :
       /\ Cost(write_ok) <= faults
       /\ ZeroBalance(loc.balance) \/ write_ok
       /\ faults' = faults - Cost(write_ok)
       /\ IF ZeroBalance(loc.balance)
          THEN /\ bot_config' = IF write_ok THEN "dead" ELSE bot_config
               /\ loc' = [loc EXCEPT !.did = @ \cup {"store_write"},
                                     !.exit_code = IF write_ok THEN 0 ELSE @]
               /\ pc' = IF write_ok THEN "off" ELSE "except"
          ELSE /\ bot_config' = bot_config
               /\ loc' = loc
               /\ pc' = "phase_2"
    /\ UNCHANGED <<runs, bot_initial_balance, bot_balance, bot_last_run, bot_last_error, tbl_positions, tbl_orders, tbl_cache, tbl_trade_logs, now, probe>>

phase_2_discovery ==
    /\ pc = "phase_2"
    /\ \E markets \in Discoveries :
          /\ loc' = [loc EXCEPT !.markets = markets, !.did = @ \cup {"discover"}]
          /\ pc' = IF markets = << >> THEN "phase_6" ELSE "phase_3"
    /\ UNCHANGED <<faults, runs, storeVars, now, probe>>

phase_3_analysis ==
    /\ pc = "phase_3"
    /\ \E replies \in [Ids(loc.markets) -> OracleReplies], read_ok \in [Ids(loc.markets) -> Outcomes], write_ok \in [Ids(loc.markets) -> Outcomes] :
       /\ CostAll(read_ok) + CostAll(write_ok) <= faults
       /\ faults' = faults - (CostAll(read_ok) + CostAll(write_ok))
       /\ \E r \in {AnalysisLoop(tbl_cache, loc.markets, Len(loc.markets), now, replies, read_ok, write_ok)} :
          \E opps \in {SortByEdge(r.opportunities)} :
                 /\ tbl_cache' = r.tbl
                 /\ loc' = [loc EXCEPT !.analysis = [ran |-> TRUE, before |-> tbl_cache, reused |-> r.reused, asked |-> r.asked],
                                       !.opportunities = opps,
                                       !.did = @ \cup (IF r.asked # {} THEN {"oracle"} ELSE {})
                                                 \cup (IF \E m \in r.asked : replies[m] # NoReply THEN {"store_write"} ELSE {})]
                 /\ pc' = IF opps = << >> THEN "phase_6" ELSE "phase_4"
    /\ UNCHANGED <<runs, bot_config, bot_initial_balance, bot_balance, bot_last_run, bot_last_error, tbl_positions, tbl_orders, tbl_trade_logs, now, probe>>

phase_4_decision_and_execution ==
    /\ pc = "phase_4"
    /\ \E venue \in [Ids(loc.opportunities) -> PlaceOutcomes], failing \in Failings, write_ok \in Outcomes :
       /\ CostAt(failing) + Cost(write_ok) <= faults
       /\ ZeroBalance(loc.balance) \/ write_ok
       /\ faults' = faults - (CostAt(failing) + Cost(write_ok))
       /\ \E health \in {portfolio_health_check(DefaultParams, loc.balance, loc.initial_balance)} :
          \E r \in {ExecutionLoop(tbl_orders, loc.opportunities, Len(loc.opportunities), now, loc.balance, loc.initial_balance, loc.positions, loc.dry_run, venue, failing)} :
                 IF health = "dead"
                 THEN /\ bot_config' = IF write_ok THEN "dead" ELSE bot_config
                      /\ loc' = [loc EXCEPT !.did = @ \cup {"store_write"}]
                      /\ pc' = IF write_ok THEN "phase_5" ELSE "except"
                      /\ UNCHANGED <<tbl_orders, tbl_trade_logs>>
                 ELSE /\ Len(r.tbl) <= MaxOrders
                      /\ tbl_orders' = r.tbl
                      /\ tbl_trade_logs' = tbl_trade_logs + r.logs
                      /\ loc' = [loc EXCEPT !.trades = r.trades,
                                            !.assessed = r.assessed,
                                            !.submitted = r.submitted,
                                            !.accepted = r.accepted,
                                            !.did = @ \cup (IF r.submitted # << >> THEN {"place_order"} ELSE {})
                                                      \cup (IF r.nwrites > 0 THEN {"oracle"} ELSE {})
                                                      \cup (IF r.nwrites > 0 \/ r.raised THEN {"store_write"} ELSE {})]
                      /\ pc' = IF r.raised THEN "except" ELSE "phase_5"
                      /\ UNCHANGED bot_config
    /\ UNCHANGED <<runs, bot_initial_balance, bot_balance, bot_last_run, bot_last_error, tbl_positions, tbl_cache, now, probe>>

\* phase_5_arbitrage_check only reads the markets and logs
phase_5_arbitrage_check ==
    /\ pc = "phase_5"
    /\ pc' = "phase_6"
    /\ UNCHANGED <<faults, runs, storeVars, now, loc, probe>>

\* main(): the balance fetched again after live trades, and phase_6_summary
phase_6_summary ==
    /\ pc = "phase_6"
    /\ \E refreshed \in WalletBalances, w1 \in Outcomes, w2 \in Outcomes :
       /\ Cost(w1) + Cost(w2) <= faults
       /\ faults' = faults - (Cost(w1) + Cost(w2))
       /\ LET refetch == loc.trades # << >> /\ ~loc.dry_run
              balance == IF refetch THEN refreshed ELSE loc.balance
              raised1 == refetch /\ ~w1
              raised2 == ~raised1 /\ ~w2
          IN  /\ bot_balance' = IF refetch /\ w1 THEN balance ELSE bot_balance
              /\ bot_last_run' = IF raised1 \/ raised2 THEN bot_last_run ELSE now
              /\ loc' = [loc EXCEPT !.summary_balance = balance,
                                    !.exit_code = IF raised1 \/ raised2 THEN @ ELSE 0,
                                    !.did = @ \cup {"store_write"}
                                              \cup (IF raised1 THEN {} ELSE {"summary"})
                                              \cup (IF refetch THEN {"ledger_balance"} ELSE {})]
              /\ pc' = IF raised1 \/ raised2 THEN "except" ELSE "off"
    /\ UNCHANGED <<runs, bot_config, bot_initial_balance, bot_last_error, tbl_positions, tbl_orders, tbl_cache, tbl_trade_logs, now, probe>>

\* a handler whose last-error write is not wrapped in a try of its own;
\* C12 fails of it
LastErrorWriteUnguarded(bound, write_ok) ==
    [written |-> bound /\ write_ok, raised |-> ~(bound /\ write_ok)]

\* main(): "try: state.set_config("last_error", ...) except Exception: pass".
\* bound: StateManager() had returned, so the name state is bound; if not,
\* the call raises a NameError, which the inner except swallows as well.
LastErrorWrite(bound, write_ok) ==
    [written |-> bound /\ write_ok, raised |-> FALSE]

\* main(): the except clause, then sys.exit(1)
top_level_handler ==
    /\ pc = "except"
    /\ \E write_ok \in Outcomes :
       /\ Cost(write_ok) <= faults
       /\ faults' = faults - Cost(write_ok)
       /\ \E w \in {LastErrorWrite(loc.state_bound, write_ok)} :
             /\ bot_last_error' = IF w.written THEN now ELSE bot_last_error
             /\ loc' = [loc EXCEPT !.exit_code = 1,
                                   !.uncaught = w.raised,
                                   !.did = @ \cup {"last_error"}
                                             \cup (IF loc.state_bound THEN {"store_write"} ELSE {})]
    /\ pc' = "off"
    /\ UNCHANGED <<runs, bot_config, bot_initial_balance, bot_balance, bot_last_run, tbl_positions, tbl_orders, tbl_cache, tbl_trade_logs, now, probe>>

Next ==
    \/ Start
    \/ phase_0_kill_switch
    \/ phase_1_balance
    \/ phase_1_positions
    \/ phase_1_orders
    \/ balance_check
    \/ phase_2_discovery
    \/ phase_3_analysis
    \/ phase_4_decision_and_execution
    \/ phase_5_arbitrage_check
    \/ phase_6_summary

\* every store read and write and every ledger query succeeds
Spec == Init /\ [][Next]_vars

NextFaults == Next \/ top_level_handler

\* store reads and writes and ledger queries may fail
SpecFaults == InitFaults /\ [][NextFaults]_vars

-----------------------------------------------------------------------------
(* Invocations scheduled for ever, main.py under its scheduler.            *)

\* a stored time once the clock has been set back by shift hours; what is
\* older than MaxTicks hours counts as MaxTicks hours old
Aged(t, shift) ==
    IF t = BadTime THEN BadTime ELSE IF t - shift < 0 THEN 0 ELSE t - shift

\* hours the clock is set back so that it stays within MaxTicks
Shift(d) == IF now + d > MaxTicks THEN now + d - MaxTicks ELSE 0

\* main() started by the scheduler once more, d hours after the last start.
\* The clock is kept within MaxTicks by setting it and every stored time
\* back; a live invocation starts only when the order table has room for
\* the orders of a cycle.
StartAgain ==
    /\ pc = "off"
    /\ \E d \in (IF runs = 0 THEN {0} ELSE Advances), dry_run \in BOOLEAN :
          /\ dry_run \/ Len(tbl_orders) + 2 <= MaxOrders
          /\ now' = now + d - Shift(d)
          /\ runs' = IF runs < MaxRuns THEN runs + 1 ELSE runs
          /\ tbl_orders' = [i \in RowIds(tbl_orders) |->
                               [tbl_orders[i] EXCEPT !.created_at = Aged(@, Shift(d)), !.updated_at = Aged(@, Shift(d))]]
          /\ tbl_cache' = [m \in Markets |-> [tbl_cache[m] EXCEPT !.last_analyzed = Aged(@, Shift(d))]]
          /\ bot_last_run' = Aged(bot_last_run, Shift(d))
          /\ loc' = NewLoc(dry_run)
          /\ pc' = "phase_0"
    /\ UNCHANGED <<faults, bot_config, bot_initial_balance, bot_balance, bot_last_error, tbl_positions, tbl_trade_logs, probe>>

\* _cancel_stale_orders with every cancel request accepted by the ledger
CancelAccepted ==
    /\ phase_1_orders
    /\ loc'.stale.requests # {}
    /\ loc'.stale.accepted = loc'.stale.requests

NextLive ==
    \/ StartAgain
    \/ phase_0_kill_switch
    \/ phase_1_balance
    \/ phase_1_positions
    \/ phase_1_orders
    \/ balance_check
    \/ phase_2_discovery
    \/ phase_3_analysis
    \/ phase_4_decision_and_execution
    \/ phase_5_arbitrage_check
    \/ phase_6_summary

\* the order rows earlier invocations left: an order placed in the hour
\* before, alone or with an order stored without an id
OpenSeedOrders ==
    {<<OrderRow(1, "OPEN", 0)>>, <<OrderRow(1, "OPEN", 0), OrderRow(NoId, "OPEN", 0)>>}

\* a store with a baseline of 1000 and open orders
InitLive ==
    /\ bot_config = "unset"
    /\ bot_initial_balance = <<1000, 1>>
    /\ bot_balance = QZero
    /\ bot_last_run = 0
    /\ bot_last_error = 0
    /\ tbl_positions = [k \in Keys |-> NoPos]
    /\ tbl_orders \in OpenSeedOrders
    /\ tbl_cache = [m \in Markets |-> NoCache]
    /\ tbl_trade_logs = 0
    /\ now = 0
    /\ runs = 0
    /\ pc = "off"
    /\ loc = NoLoc
    /\ probe = NoProbe
    /\ faults = 0

\* the scheduler starts main() again and again, every invocation runs to
\* its end, and the ledger accepts cancel requests again and again
SpecLive == InitLive /\ [][NextLive]_vars /\ WF_vars(NextLive) /\ SF_vars(CancelAccepted)

-----------------------------------------------------------------------------
(* The sort of phase 3 and phase 4 called directly, on four markets.       *)

MarketSeq == <<"m1", "m2", "m3", "m4">>

\* what phase 3 may have found for a market: a fresh analysis with an edge
\* of 0.25, of -0.15 or of 0.4, or a row of the cache
FoundShapes ==
    {[yes_price |-> <<2, 5>>, ai_probability |-> <<13, 20>>, cached |-> FALSE],
     [yes_price |-> <<4, 5>>, ai_probability |-> <<13, 20>>, cached |-> FALSE],
     [yes_price |-> <<1, 5>>, ai_probability |-> <<3, 5>>, cached |-> FALSE],
     [yes_price |-> <<2, 5>>, ai_probability |-> <<13, 20>>, cached |-> TRUE]}

\* the opportunity phase 3 appends for a market
Found(m, shape) ==
    IF shape.cached
    THEN CachedOpportunity(m, [ex |-> TRUE, last_analyzed |-> 0, ai_probability |-> shape.ai_probability, market_price |-> shape.yes_price])
    ELSE FreshOpportunity(MarketView(m, shape.yes_price, TRUE), shape.ai_probability)

\* the lists phase 3 may hold before its sort, in market order
FoundLists ==
    {[i \in 1..Len(MarketSeq) |-> Found(MarketSeq[i], shapes[i])] : shapes \in [1..Len(MarketSeq) -> FoundShapes]}

LoopBalances == {QZero, <<100, 1>>, <<1000, 1>>}

InitExecution ==
    /\ Idle
    /\ faults = 0
    /\ tbl_positions = [k \in Keys |-> NoPos]
    /\ probe \in [op : {"phase_4"}, called : {FALSE}, found : FoundLists, dry_run : BOOLEAN, balance : LoopBalances]

\* opportunities.sort(...) at the end of phase_3_analysis, and then
\* phase_4_decision_and_execution with the balance as initial balance and
\* no ledger position
ExecutionCall ==
    /\ probe.op = "phase_4"
    /\ ~probe.called
    /\ \E venue \in [Markets -> PlaceOutcomes] :
       \E opps \in {SortByEdge(probe.found)} :
       \E health \in {portfolio_health_check(DefaultParams, probe.balance, probe.balance)} :
       \E r \in {ExecutionLoop(tbl_orders, opps, Len(opps), now, probe.balance, probe.balance, NoLedger, probe.dry_run, venue, 0)} :
          IF health = "dead"
          THEN /\ bot_config' = "dead"
               /\ loc' = [loc EXCEPT !.dry_run = probe.dry_run, !.balance = probe.balance, !.initial_balance = probe.balance, !.opportunities = opps]
               /\ UNCHANGED <<tbl_orders, tbl_trade_logs>>
          ELSE /\ tbl_orders' = r.tbl
               /\ tbl_trade_logs' = tbl_trade_logs + r.logs
               /\ loc' = [loc EXCEPT !.dry_run = probe.dry_run, !.balance = probe.balance, !.initial_balance = probe.balance, !.opportunities = opps,
                                     !.trades = r.trades, !.assessed = r.assessed, !.submitted = r.submitted, !.accepted = r.accepted]
               /\ UNCHANGED bot_config
    /\ probe' = [probe EXCEPT !.called = TRUE]
    /\ UNCHANGED <<faults, runs, bot_initial_balance, bot_balance, bot_last_run, bot_last_error, tbl_positions, tbl_cache, now, pc>>

NextExecution == ExecutionCall

SpecExecution == InitExecution /\ [][NextExecution]_vars

-----------------------------------------------------------------------------
(* Claims about reconcile_positions.                                       *)

Returned == probe.op = "reconcile_positions" /\ ~probe.raised

OpenKeys == {k \in Keys : tbl_positions[k].ex /\ tbl_positions[k].is_open}

\* C1, as stated: after reconcile_positions returns, the open stored
\* positions are exactly the ledger positions, the same keys, each with the
\* ledger's size.
C1_ExactSizes ==
    Returned =>
        /\ OpenKeys = DOMAIN probe.onchain
        /\ \A k \in OpenKeys : tbl_positions[k].size = probe.onchain[k]

\* C1, amended: after reconcile_positions returns, the open stored positions
\* have exactly the ledger's keys, each with a size within 0.001 of the
\* ledger's size.
C1_SizesWithinTolerance ==
    Returned =>
        /\ OpenKeys = DOMAIN probe.onchain
        /\ \A k \in OpenKeys : ~SizeDiffers(tbl_positions[k].size, probe.onchain[k])

\* a call that added a key and closed another
C1_Witness ==
    /\ Returned
    /\ probe.added # {}
    /\ probe.removed # {}

\* C2: a second reconcile_positions with the same ledger positions, on the
\* store the first call left, reports added = removed = updated = {} and
\* writes no position record.
C2_Idempotent ==
    (Returned /\ probe.again) =>
        /\ probe.added = {}
        /\ probe.removed = {}
        /\ probe.updated = {}
        /\ probe.nwrites = 0
        /\ tbl_positions = probe.before

\* a second call has returned after a first call that wrote two records
C2_Witness ==
    /\ Returned
    /\ probe.again
    /\ probe.first = 2

\* the keys the ledger reported that had no open record before the call
Undiscovered ==
    {k \in DOMAIN probe.onchain : ~(probe.before[k].ex /\ probe.before[k].is_open)}

\* C16: every key the ledger reports that has no open record in the store is
\* reported in 'added' by reconcile_positions, and a fetch of the open
\* positions afterwards includes the key with the ledger's size and the
\* provenance of a discovered position ("onchain_discovery" in the store).
C16_DiscoveredAdded ==
    Returned =>
        \A k \in Undiscovered :
            /\ k \in probe.added
            /\ k \in DOMAIN get_positions(tbl_positions, TRUE)
            /\ get_positions(tbl_positions, TRUE)[k].size = probe.onchain[k]
            /\ get_positions(tbl_positions, TRUE)[k].source = "onchain_discovery"

\* a call was given a ledger position of size 5.2 at a key the store had no
\* record of, and one at a key whose record was closed and opened by the agent
C16_Witness ==
    /\ Returned
    /\ \E k \in Undiscovered : ~probe.before[k].ex /\ probe.onchain[k] = <<26, 5>>
    /\ \E k \in Undiscovered : probe.before[k].ex /\ probe.before[k].source = "agent"

-----------------------------------------------------------------------------
(* Claims about assess_trade.                                              *)

Assessed == probe.op = "assess_trade" /\ probe.called

\* current_balance / initial_balance < stop_out_pct
BelowStopOut ==
    /\ QLt(QZero, probe.initial_balance)
    /\ QLt(probe.current_balance, QMul(probe.params.stop_out_pct, probe.initial_balance))

\* C5: whenever current_balance / initial_balance < stop_out_pct,
\* assess_trade returns should_trade = false, order size 0 and risk level
\* "blocked", whatever the probability, price, existing size and side.
C5_StopOutDominates ==
    (Assessed /\ BelowStopOut) =>
        /\ ~probe.ret.should_trade
        /\ probe.ret.order_size_usdc = QZero
        /\ probe.ret.risk_level = "blocked"

\* balance 160 against initial 1000 (16%), with an edge of 0.25
C5_Witness ==
    /\ Assessed
    /\ probe.current_balance = <<160, 1>>
    /\ probe.initial_balance = <<1000, 1>>
    /\ probe.ai_probability = <<13, 20>>
    /\ probe.market_price = <<2, 5>>
    /\ probe.side = "BUY"
    /\ probe.ret.risk_level = "blocked"

\* C6, as stated: whenever assess_trade returns should_trade = true, the
\* returned order size satisfies
\* 1.0 <= size <= min(max_single_order,
\*                    max_position_pct * current_balance - existing size).
C6_SizeWithinCaps ==
    (Assessed /\ probe.ret.should_trade) =>
        /\ QLe(QOne, probe.ret.order_size_usdc)
        /\ QLe(probe.ret.order_size_usdc,
               QMin(probe.params.max_single_order,
                    QSub(QMul(probe.params.max_position_pct, probe.current_balance),
                         probe.existing_position_size)))


-----------------------------------------------------------------------------
(* Claims about the invocation.                                            *)

\* C3, as stated: once the stored initial balance is positive no step of any
\* invocation changes it, also when a store read fails.
C3_BaselineNeverChanges ==
    [][QLt(QZero, bot_initial_balance) => bot_initial_balance' = bot_initial_balance]_vars

\* C4: when the kill-switch flag read in phase 0 is false, that step ends the
\* invocation with exit status 0: no ledger fetch, no order submission or
\* cancellation, no oracle call and no store write has happened, and the
\* store is as it was.
C4_KillSwitchStopsEverything ==
    [][(pc = "phase_0" /\ loc'.alive = "dead") =>
          /\ pc' = "off"
          /\ loc'.exit_code = 0
          /\ loc'.did = {}
          /\ storeVars' = storeVars]_vars

\* the second invocation read the flag as false and ended with status 0
C4_Witness ==
    /\ pc = "off"
    /\ runs = 2
    /\ loc.alive = "dead"
    /\ loc.exit_code = 0

\* C7: every step leaves each stored order that is FILLED or CANCELLED as it
\* is, and changes the status of a stored order only from OPEN to FILLED or
\* CANCELLED; no order row disappears.
C7_StatusMonotonic ==
    [][\A i \in RowIds(tbl_orders) :
          /\ i \in RowIds(tbl_orders')
          /\ tbl_orders[i].status # "OPEN" => tbl_orders'[i] = tbl_orders[i]
          /\ tbl_orders'[i].status # tbl_orders[i].status =>
                /\ tbl_orders[i].status = "OPEN"
                /\ tbl_orders'[i].status \in {"FILLED", "CANCELLED"}]_vars

\* the stale-order routine has cancelled an OPEN order of a store that also
\* holds a FILLED order
C7_Witness ==
    /\ loc.stale.ran
    /\ \E i \in RowIds(loc.stale.before) : loc.stale.before[i].status = "FILLED"
    /\ \E i \in RowIds(loc.stale.before) : loc.stale.before[i].status = "OPEN"
    /\ \E i \in RowIds(tbl_orders) : tbl_orders[i].status = "CANCELLED"

\* the age of a stored order exceeds the staleness threshold
OlderThanThreshold(row) ==
    /\ row.created_at # BadTime
    /\ (now - row.created_at) * TickMinutes > STALE_ORDER_MINUTES

\* C8, as stated: after the stale-order routine, every order that was OPEN
\* and older than 60 minutes got a cancel request and is CANCELLED iff the
\* request succeeded; every younger OPEN order got no request and is OPEN;
\* the returned count is the number of orders moved to CANCELLED.
C8_StaleOrdersCancelled ==
    (loc.stale.ran /\ pc = "balance_check") =>
        LET before == loc.stale.before
            open == {i \in RowIds(before) : before[i].status = "OPEN"}
        IN  /\ \A i \in open :
                 IF OlderThanThreshold(before[i])
                 THEN /\ before[i].order_id \in loc.stale.requests
                      /\ tbl_orders[i].status = "CANCELLED" <=> before[i].order_id \in loc.stale.accepted
                 ELSE /\ before[i].order_id \notin loc.stale.requests
                      /\ tbl_orders[i].status = "OPEN"
            /\ loc.stale.cancelled = Cardinality({i \in open : tbl_orders[i].status = "CANCELLED"})

\* C9: if the balance fetched in phase 1 is <= 0, the invocation goes no
\* further than the balance test, and it ends with the agent marked dead in
\* config and exit status 0, with no discovery fetch, no oracle call and no
\* order submission.
C9_ZeroBalanceStops ==
    (loc.fetched /\ QLe(loc.balance, QZero)) =>
        /\ pc \in {"phase_1_positions", "phase_1_orders", "balance_check", "off"}
        /\ loc.did \cap {"discover", "oracle", "place_order"} = {}
        /\ pc = "off" => (bot_config = "dead" /\ loc.exit_code = 0)

\* an invocation that fetched a balance of 0 from a store that was not
\* marked dead has ended
C9_Witness ==
    /\ pc = "off"
    /\ loc.alive = "alive"
    /\ loc.fetched
    /\ loc.balance = QZero
    /\ bot_config = "dead"

\* the markets phase 3 has looked at, with the cache row each had before
Analysed == {i \in 1..Len(loc.markets) : loc.analysis.ran}
CachedBefore(i) == loc.analysis.before[loc.markets[i].condition_id]
\* the row's age is within the 4 hours of the freshness window
WithinWindow(row) == (now - row.last_analyzed) * TickMinutes <= MAX_AGE_HOURS * 60

C11_SummaryAlwaysAttempted ==
    (pc = "off" /\ runs > 0) => "summary" \in loc.did

\* C12: an exception that escaped a phase is handled by one step of the
\* top-level handler: it attempts the last-error write, ends the process
\* with status 1, and raises nothing further, also when that write fails or
\* the store was never constructed.
C12_HandlerNeverThrows ==
    [][pc = "except" =>
          /\ pc' = "off"
          /\ loc'.exit_code = 1
          /\ "last_error" \in loc'.did
          /\ ~loc'.uncaught
          /\ bot_last_error' # bot_last_error => loc.state_bound]_vars

\* the handler has run in an invocation whose StateManager() raised, so
\* its own write failed too
C12_Witness ==
    /\ pc = "off"
    /\ loc.exit_code = 1
    /\ ~loc.state_bound
    /\ "last_error" \in loc.did

\* the number of assessments of this invocation that approved a trade
Approved(assessed) == Cardinality({i \in 1..Len(assessed) : assessed[i].should_trade})

\* C13: in dry-run mode phase 4 runs and goes on to phase 5, no place_order
\* call is made, no order row and no trade-log entry is written, and each
\* approved opportunity gives one simulated trade record.
C13_DryRunSendsNothing ==
    [][(pc = "phase_4" /\ loc.dry_run) =>
          /\ pc' = "phase_5"
          /\ loc'.submitted = << >>
          /\ "place_order" \notin loc'.did
          /\ tbl_orders' = tbl_orders
          /\ tbl_trade_logs' = tbl_trade_logs
          /\ Len(loc'.trades) = Approved(loc'.assessed)]_vars

\* a dry-run invocation has passed phase 4 with a simulated trade
C13_Witness ==
    /\ loc.dry_run
    /\ pc \in {"phase_5", "phase_6", "off"}
    /\ Len(loc.trades) >= 1
    /\ loc.submitted = << >>

\* the price is strictly between 0.01 and 0.99
PriceInRange == QLt(<<1, 100>>, probe.market_price) /\ QLt(probe.market_price, <<99, 100>>)

\* C14, as stated: for a price strictly between 0.01 and 0.99 and a
\* probability <= the price, the raw Kelly fraction is <= 0 and
\* calculate_kelly returns 0.
C14_NoKellyWithoutEdge ==
    (/\ probe.op = "calculate_kelly"
     /\ probe.called
     /\ PriceInRange
     /\ QLe(probe.ai_probability, probe.market_price)) =>
        /\ QLe(probe.kelly_raw, QZero)
        /\ probe.ret = QZero

\* scenario A: default parameters, balance 1000, initial 1000, price 0.40,
\* probability 0.65, no existing position
ScenarioA ==
    /\ Assessed
    /\ probe.params = DefaultParams
    /\ probe.current_balance = <<1000, 1>>
    /\ probe.initial_balance = <<1000, 1>>
    /\ probe.market_price = <<2, 5>>
    /\ probe.ai_probability = <<13, 20>>
    /\ probe.existing_position_size = QZero
    /\ probe.side = "BUY"

\* the size of scenario A before any cap, in cents
UncappedSize ==
    Round(QMul(probe.current_balance, calculate_kelly(probe.params, probe.ai_probability, probe.market_price)), 100)

\* C15, as stated: in scenario A the edge is 0.25, the raw Kelly fraction
\* about 0.4583, the fractional Kelly about 0.1146, the uncapped size about
\* 114.60, and assess_trade approves with a final size of 50.00.
C15_ScenarioAAsStated ==
    ScenarioA =>
        /\ QSub(probe.ai_probability, probe.market_price) = <<1, 4>>
        /\ probe.ret.kelly_raw = <<4583, 10000>>
        /\ probe.ret.kelly_fraction = <<573, 5000>>
        /\ UncappedSize = <<573, 5>>
        /\ probe.ret.should_trade
        /\ probe.ret.order_size_usdc = <<50, 1>>

\* C15, amended: in scenario A the edge is 0.25, the raw Kelly fraction
\* about 0.4167, the fractional Kelly about 0.1042, the uncapped size about
\* 104.17, and assess_trade approves with a final size of 50.00.
C15_ScenarioA ==
    ScenarioA =>
        /\ QSub(probe.ai_probability, probe.market_price) = <<1, 4>>
        /\ probe.ret.kelly_raw = <<4167, 10000>>
        /\ probe.ret.kelly_fraction = <<521, 5000>>
        /\ UncappedSize = <<10417, 100>>
        /\ probe.ret.should_trade
        /\ probe.ret.order_size_usdc = <<50, 1>>

\* assess_trade has returned on the inputs of scenario A
C15_Witness == ScenarioA /\ probe.ret.reason = "approved"

\* the opportunity of this invocation on a market
OpportunityOf(condition_id) ==
    CHOOSE o \in {loc.opportunities[i] : i \in 1..Len(loc.opportunities)} : o.condition_id = condition_id

\* C17, as stated: when the oracle's probability is below the market price
\* the risk gate is called with probability = 1 - oracle probability and
\* price = 1 - market price.
C17_NoSideMirrored ==
    \A i \in 1..Len(loc.assessed) :
        LET opp == OpportunityOf(loc.assessed[i].condition_id)
        IN  QLt(opp.ai_probability, opp.market_price) =>
                /\ loc.assessed[i].probability = QSub(QOne, opp.ai_probability)
                /\ loc.assessed[i].price = QSub(QOne, opp.market_price)

\* C18, as stated: once a balance query or a positions query of the ledger
\* has failed in phase 1, the invocation is in the top-level handler or has
\* ended there with a last-error write attempted and exit code 1; no later
\* phase runs.
C18_LedgerFailurePropagates ==
    loc.ledger_failed =>
        \/ pc = "except"
        \/ /\ pc = "off"
           /\ loc.exit_code = 1
           /\ "last_error" \in loc.did

\* the writes the last call of reconcile_positions had to issue
PlannedWrites == ReconcileWrites(get_positions(probe.before, TRUE), probe.onchain)

\* the store the last call leaves when every write succeeds
PlannedStore == ApplyWrites(probe.before, PlannedWrites, Len(PlannedWrites), probe.onchain)

\* the last call of reconcile_positions read the open rows and one of its
\* writes failed
WriteFailed ==
    /\ probe.op = "reconcile_positions"
    /\ probe.read_ok
    /\ probe.failing \in 1..Len(PlannedWrites)

\* C19, as stated: a failed store write for one key does not abort
\* reconcile_positions: the call returns, every other key is written as
\* planned, and the record of the failed key is as it was or as planned.
C19_WriteFailureIsolated ==
    WriteFailed =>
        /\ ~probe.raised
        /\ \A k \in Keys \ {PlannedWrites[probe.failing].key} : tbl_positions[k] = PlannedStore[k]
        /\ tbl_positions[PlannedWrites[probe.failing].key] \in
               {probe.before[PlannedWrites[probe.failing].key], PlannedStore[PlannedWrites[probe.failing].key]}

\* the order ids of the open orders that are stale now
StaleIds == {tbl_orders[StaleRows(tbl_orders, now, TRUE)[j]].order_id : j \in 1..Len(StaleRows(tbl_orders, now, TRUE))}

\* C20, as stated: in _cancel_stale_orders a failure on one order (a
\* created_at that does not parse, a refused cancel request, a failed status
\* write after an accepted cancel) is isolated: the other stale orders are
\* still requested and phase 1 ends normally, going on to the balance test.
C20_StaleOrderFailureIsolated ==
    [][pc = "phase_1_orders" =>
          /\ pc' = "balance_check"
          /\ loc'.stale.requests # {} => loc'.stale.requests = StaleIds]_vars

\* the balance fetched in phase 1 is positive and below the stop-out
\* fraction of the initial balance
StopOutBreach ==
    /\ QLt(QZero, loc.balance)
    /\ StopOut(DefaultParams, loc.balance, loc.initial_balance)

\* C21, as stated: once phase 4 has run on a stop-out breach, the agent is
\* marked not-alive in config and no order was submitted in the cycle.
C21_StopOutMarksDead ==
    (pc \in {"phase_5", "phase_6"} /\ StopOutBreach) =>
        /\ bot_config = "dead"
        /\ loc.submitted = << >>

\* the sum of the sizes of the first n trades of a list
RECURSIVE SizeSum(_, _)
SizeSum(trades, n) ==
    IF n = 0 THEN QZero ELSE QAdd(SizeSum(trades, n - 1), trades[n].size)

\* the orders placed before the i-th assessment of a cycle: the recorded
\* trades of a live cycle on the markets assessed before it
PlacedBefore(l, i) ==
    IF l.dry_run
    THEN << >>
    ELSE SelectSeq(l.trades, LAMBDA t : \E k \in 1..(i - 1) : l.assessed[k].condition_id = t.condition_id)

\* C22: in phase 4 every risk gate evaluation uses the balance fetched in
\* phase 1 minus the sizes of the orders placed earlier in the cycle, and
\* the stored balance is not written during the phase.
C22_RunningBalance ==
    [][pc = "phase_4" =>
          /\ bot_balance' = bot_balance
          /\ \A i \in 1..Len(loc'.assessed) :
                loc'.assessed[i].balance =
                    QSub(loc.balance, SizeSum(PlacedBefore(loc', i), Len(PlacedBefore(loc', i))))]_vars

\* a live cycle has assessed a second opportunity after placing an order
C22_Witness ==
    /\ ~loc.dry_run
    /\ pc = "phase_5"
    /\ Len(loc.assessed) = 2
    /\ Len(loc.trades) >= 1
    /\ QLt(loc.assessed[2].balance, loc.balance)

\* where the opportunity of a market stands in the sorted list
PlaceOf(condition_id) ==
    CHOOSE i \in 1..Len(loc.opportunities) : loc.opportunities[i].condition_id = condition_id

\* |oracle probability - market price| of the opportunity of a market
AbsEdgeOf(condition_id) ==
    QAbs(QSub(OpportunityOf(condition_id).ai_probability, OpportunityOf(condition_id).market_price))

\* the trades recorded on the markets assessed before the i-th assessment
TradesBefore(l, i) ==
    SelectSeq(l.trades, LAMBDA t : \E k \in 1..(i - 1) : l.assessed[k].condition_id = t.condition_id)

\* C23: in one invocation the opportunities are assessed in the order of the
\* sorted list, which is of non-increasing absolute edge; at most 3 trades
\* are executed (orders accepted, or simulated in dry-run); and once three
\* trades are executed no further opportunity is assessed or submitted.
C23_TradeCap ==
    /\ \A i, j \in 1..Len(loc.assessed) :
          i < j => /\ PlaceOf(loc.assessed[i].condition_id) < PlaceOf(loc.assessed[j].condition_id)
                   /\ QLe(AbsEdgeOf(loc.assessed[j].condition_id), AbsEdgeOf(loc.assessed[i].condition_id))
    /\ Len(loc.trades) <= MAX_TRADES_PER_CYCLE
    /\ \A i \in 1..Len(loc.assessed) : Len(TradesBefore(loc, i)) < MAX_TRADES_PER_CYCLE
    /\ \A j \in 1..Len(loc.submitted) :
          \E i \in 1..Len(loc.assessed) : loc.assessed[i].condition_id = loc.submitted[j].condition_id

\* a live cycle over four fresh opportunities of different edges placed
\* three orders and did not assess the fourth opportunity
C23_Witness ==
    /\ probe.op = "phase_4"
    /\ probe.called
    /\ ~loc.dry_run
    /\ \A i \in 1..Len(loc.opportunities) : loc.opportunities[i].has_tokens
    /\ Len(loc.opportunities) = 4
    /\ QLt(QAbs(loc.opportunities[4].edge), QAbs(loc.opportunities[1].edge))
    /\ Len(loc.trades) = 3
    /\ Len(loc.submitted) = 3
    /\ Len(loc.assessed) = 3
    /\ Len(tbl_orders) = 3

\* the balance ratio is below the emergency threshold and not below the
\* stop-out fraction
EmergencyMode ==
    /\ QLt(QZero, probe.current_balance)
    /\ QLt(QZero, probe.initial_balance)
    /\ ~StopOut(probe.params, probe.current_balance, probe.initial_balance)
    /\ QLt(QDiv(probe.current_balance, probe.initial_balance), probe.params.emergency_threshold)

\* C24, as stated: in emergency mode assess_trade approves only when the
\* probability exceeds the emergency confidence bar and rejects otherwise
\* with risk level "emergency"; every trade approved in emergency mode has a
\* size of at most 5% of the current balance and risk level "emergency".
C24_EmergencyGate ==
    (Assessed /\ EmergencyMode) =>
        /\ probe.ret.should_trade =>
              /\ QLt(probe.params.emergency_min_confidence, probe.ai_probability)
              /\ QLe(probe.ret.order_size_usdc, QMul(<<1, 20>>, probe.current_balance))
              /\ probe.ret.risk_level = "emergency"
        /\ ~QLt(probe.params.emergency_min_confidence, probe.ai_probability) =>
              /\ ~probe.ret.should_trade
              /\ probe.ret.risk_level = "emergency"

\* the ledger's report without the entry of one key
Without(raw, key) == [k \in DOMAIN raw \ {key} |-> raw[k]]

\* what reconcile_positions gives on the store before the last call when
\* the ledger reports raw
ReconciledFrom(raw) ==
    reconcile_positions(probe.before, engine_get_positions(raw, TRUE), probe.read_ok, probe.failing)

\* C25: a ledger entry of size zero is treated in reconciliation exactly as
\* if the ledger did not report the key: the store and the result are those
\* of the report without the entry, the key has no open stored position
\* afterwards, and an open stored position of the key is closed and reported
\* in 'removed'.
C25_ZeroSizeIsAbsent ==
    (Returned /\ ~probe.again) =>
        \A k \in {x \in DOMAIN probe.raw : probe.raw[x] = QZero} :
            /\ tbl_positions = ReconciledFrom(Without(probe.raw, k)).tbl
            /\ probe.added = ReconciledFrom(Without(probe.raw, k)).added
            /\ probe.removed = ReconciledFrom(Without(probe.raw, k)).removed
            /\ probe.updated = ReconciledFrom(Without(probe.raw, k)).updated
            /\ ~(tbl_positions[k].ex /\ tbl_positions[k].is_open)
            /\ (probe.before[k].ex /\ probe.before[k].is_open) => k \in probe.removed

\* the ledger reported size zero for a key with an open stored position and
\* for a key without a record
C25_Witness ==
    /\ Returned
    /\ ~probe.again
    /\ \E k \in DOMAIN probe.raw : probe.raw[k] = QZero /\ probe.before[k].ex /\ probe.before[k].is_open /\ k \in probe.removed
    /\ \E k \in DOMAIN probe.raw : probe.raw[k] = QZero /\ ~probe.before[k].ex

\* C27, as stated: when the stored alive flag is false, or the read of the
\* flag fails, the invocation ends at the kill switch: it runs no later
\* phase and submits and cancels no order.
C27_KillSwitchFailsSafe ==
    loc.flag \in {"false", "failed"} =>
        /\ pc = "off"
        /\ loc.did \cap {"place_order", "cancel_order"} = {}

\* the i-th order row is there and OPEN
OpenRow(i) == i <= Len(tbl_orders) /\ tbl_orders[i].status = "OPEN"

\* C26, as stated: under invocations scheduled for ever, with a ledger that
\* accepts cancel requests again and again, every order recorded OPEN in the
\* store eventually leaves OPEN.
C26_OpenOrdersLeave ==
    \A i \in 1..MaxOrders : OpenRow(i) ~> ~OpenRow(i)

\* the opportunity phase 3 computes from the oracle probability and the
\* market price of a cached one, for a market that lists its tokens
AsFresh(opp) ==
    FreshOpportunity(MarketView(opp.condition_id, opp.market_price, TRUE), opp.ai_probability)

\* C28, as stated: an opportunity served from the cache has the edge, the
\* tradable side and token, the probability and price given to the risk
\* gate and the tokens of the opportunity computed freshly from the same
\* oracle probability and market price, and phase 4 consults the risk gate
\* for it.
C28_CachedAsFresh ==
    \A i \in 1..Len(loc.opportunities) :
        loc.opportunities[i].cached =>
            /\ loc.opportunities[i].edge = AsFresh(loc.opportunities[i]).edge
            /\ TradeSide(loc.opportunities[i]) = TradeSide(AsFresh(loc.opportunities[i]))
            /\ loc.opportunities[i].has_tokens
            /\ pc = "phase_5" => \E j \in 1..Len(loc.assessed) :
                                    loc.assessed[j].condition_id = loc.opportunities[i].condition_id

-----------------------------------------------------------------------------
(* C29: the record of an accepted order.                                   *)

\* the k-th row the store has gained since the invocation read its orders
NewOrderRow(k) == Len(loc.stale.before) + k

\* C29: every order the Ledger Gateway accepted in an invocation has an
\* OPEN order record in the store when the invocation ends, also when the
\* write of the record fails.
C29_AcceptedOrderRecorded ==
    pc = "off" =>
        \A k \in 1..loc.accepted :
            /\ NewOrderRow(k) \in DOMAIN tbl_orders
            /\ tbl_orders[NewOrderRow(k)].status = "OPEN"

-----------------------------------------------------------------------------
(* C30: the balance a cycle keeps in memory.                               *)

\* the orders a cycle has placed: the recorded trades of a live cycle
Placed(l) == IF l.dry_run THEN << >> ELSE l.trades

\* C30: within one cycle the sizes of the orders placed sum to strictly
\* less than the balance fetched in phase 1, after each of them: the
\* balance the loop keeps in memory stays positive after every decrement.
C30_BalanceStaysPositive ==
    \A n \in 1..Len(Placed(loc)) : QLt(SizeSum(Placed(loc), n), loc.balance)

C30_Witness ==
    /\ probe.op = "phase_4"
    /\ probe.called
    /\ loc.balance = <<100, 1>>
    /\ Len(Placed(loc)) = 3
    /\ QLt(<<25, 1>>, SizeSum(Placed(loc), 3))
    /\ QLt(loc.assessed[3].balance, loc.assessed[2].balance)

=============================================================================
